---- MODULE Spec2Model ----
(***************************************************************************)
(* Model of the SonarTS analysis server (SonarTsServer) and of its         *)
(* collaborators, as far as src/sonarts-core/src/utils/areEquivalent.ts    *)
(* shows them.                                                             *)
(*                                                                         *)
(* Paths are sequences of path segments, the filesystem root is <<>>.      *)
(* Every value that travels on the connection is a sequence of strings, so *)
(* that all of them are comparable.                                        *)
(***************************************************************************)
EXTENDS Naturals, Integers, Sequences, FiniteSets, TLC

VARIABLES
  accumulatedData,      \* start(): the string accumulated on the connection
  fileCache,            \* SonarTsServer.fileCache: file path -> latest content
  tsConfigCache,        \* SonarTsServer.tsConfigCache: file path -> tsconfig path
  servicesPerTsconfig,  \* SonarTsServer.servicesPerTsconfig: tsconfig -> service
  disk,                 \* the configuration files that exist on disk
  wire,                 \* bytes sent by the client, not yet delivered
  inflight,             \* the requests the client has no response for yet
  last,                 \* what the last "data" event did (history)
  first,                \* areEquivalent: the first argument
  second,               \* areEquivalent: the second argument
  ignoreLiterals,       \* areEquivalent: the third argument
  returned              \* <<>>, or the value areEquivalent returned

server == <<accumulatedData, fileCache, tsConfigCache, servicesPerTsconfig,
            disk, wire, inflight, last>>

compared == <<first, second, ignoreLiterals, returned>>

vars == <<server, compared>>

(***************************************************************************)
(* Bounds                                                                  *)
(***************************************************************************)
MaxInFlight == 2        \* requests the client sends before it reads a response
MaxChildren == 2        \* children of a node, and nodes of a sequence

(***************************************************************************)
(* Values                                                                  *)
(***************************************************************************)
Undefined == <<"undefined">>
DEFAULT_TSCONFIG == <<"DEFAULT_TSCONFIG">>
EMPTY_ANSWER == [issues |-> {}]
TsConfigName == "tsconfig.json"

File1 == <<"a", "b", "x.ts">>
File2 == <<"a", "y.ts">>
Files == {File1, File2}

NearConfig == <<"a", "b", TsConfigName>>
FarConfig == <<"a", TsConfigName>>
CustomConfig == <<"c", "custom.json">>
DiskPaths == {NearConfig, FarConfig, CustomConfig}

ProjectRoot == <<"a">>

\* In a content "x" is plain code, "!" induces a syntax error and "E" is a
\* character whose UTF-8 encoding takes two bytes.
Req(file, rules, content, tsconfigPath) ==
  [file |-> file, rules |-> rules, content |-> content,
   projectRoot |-> ProjectRoot, tsconfigPath |-> tsconfigPath]

\* the requests of Spec: File1 with every rule set, File2 with and without
\* an explicit configuration path, both with every content
ProviderRequests ==
  {Req(File1, rules, content, Undefined) :
     rules \in {<<>>, <<"r1">>}, content \in {<<"x">>, <<"!">>}}
  \cup {Req(File2, <<"r1">>, content, path) :
          content \in {<<"x">>, <<"!">>}, path \in {Undefined, CustomConfig}}

\* the requests of SpecConfig
ConfigRequests ==
  {Req(file, <<"r1">>, <<"x">>, path) :
     file \in Files, path \in {Undefined, CustomConfig}}

\* the requests of SpecWire
WireRequests ==
  {Req(File1, <<"r1">>, <<"x">>, Undefined),
   Req(File1, <<>>, <<"x", "E">>, Undefined),
   Req(File2, <<>>, <<"E">>, CustomConfig)}

\* what a parse and a service creation can yield: the file set of the
\* descriptor and whether the service has a program
ProviderShapes ==
  [files : SUBSET Files, program : {TRUE}]
  \cup [files : {Files}, program : {FALSE}]

ConfigShapes == [files : {{}, Files}, program : {TRUE}]

WireShapes == [files : {Files}, program : {TRUE}]

(***************************************************************************)
(* path.dirname, path.join                                                 *)
(***************************************************************************)
dirname(p) == IF Len(p) = 0 THEN p ELSE SubSeq(p, 1, Len(p) - 1)

join(dir, name) == Append(dir, name)

existsSync(dsk, p) == p \in dsk

(***************************************************************************)
(* SonarTsServer.getTsConfig: the result, and the paths it passes to       *)
(* fs.existsSync, in order.                                                *)
(***************************************************************************)
\* mutant: the walk gives undefined when it reaches the root
RECURSIVE walkUp_undefinedAtRoot(_, _, _)
walkUp_undefinedAtRoot(dsk, currentDirectory, probed) ==
  LET dir == dirname(currentDirectory)
      possibleTsConfig == join(dir, TsConfigName)
      probes == Append(probed, possibleTsConfig)
  IN IF existsSync(dsk, possibleTsConfig)
     THEN [tsConfig |-> possibleTsConfig, probes |-> probes]
     ELSE IF dir # dirname(dir) THEN walkUp_undefinedAtRoot(dsk, dir, probes)
     ELSE [tsConfig |-> Undefined, probes |-> probes]

\* mutant: the walk starts in the file path itself
RECURSIVE walkUp_fromFile(_, _, _)
walkUp_fromFile(dsk, currentDirectory, probed) ==
  LET possibleTsConfig == join(currentDirectory, TsConfigName)
      probes == Append(probed, possibleTsConfig)
  IN IF existsSync(dsk, possibleTsConfig)
     THEN [tsConfig |-> possibleTsConfig, probes |-> probes]
     ELSE IF currentDirectory # dirname(currentDirectory)
     THEN walkUp_fromFile(dsk, dirname(currentDirectory), probes)
     ELSE [tsConfig |-> DEFAULT_TSCONFIG, probes |-> probes]

RECURSIVE walkUp(_, _, _)
walkUp(dsk, currentDirectory, probed) ==
  LET dir == dirname(currentDirectory)
      possibleTsConfig == join(dir, TsConfigName)
      probes == Append(probed, possibleTsConfig)
  IN IF existsSync(dsk, possibleTsConfig)
     THEN [tsConfig |-> possibleTsConfig, probes |-> probes]
     ELSE IF dir # dirname(dir) THEN walkUp(dsk, dir, probes)
     ELSE [tsConfig |-> DEFAULT_TSCONFIG, probes |-> probes]

\* mutant: an explicit path that does not exist falls back to the walk
getTsConfig_fallback(dsk, filePath, tsconfigPath) ==
  IF tsconfigPath # Undefined /\ existsSync(dsk, tsconfigPath)
  THEN [tsConfig |-> tsconfigPath, probes |-> <<tsconfigPath>>]
  ELSE walkUp(dsk, filePath, <<>>)

getTsConfig(dsk, filePath, tsconfigPath) ==
  IF tsconfigPath # Undefined
  THEN IF existsSync(dsk, tsconfigPath)
       THEN [tsConfig |-> tsconfigPath, probes |-> <<tsconfigPath>>]
       ELSE [tsConfig |-> Undefined, probes |-> <<tsconfigPath>>]
  ELSE walkUp(dsk, filePath, <<>>)

(***************************************************************************)
(* SonarTsServer.retrieveTsConfig: the cache after the call, the result,   *)
(* whether getTsConfig was called and what it probed.                      *)
(***************************************************************************)
\* mutant: the configuration is resolved on every request
retrieveTsConfig_always(cache, dsk, file, tsconfigPath) ==
  LET got == getTsConfig(dsk, file, tsconfigPath)
  IN IF got.tsConfig = Undefined
     THEN [cache |-> cache, tsConfig |-> Undefined, resolved |-> TRUE,
           probes |-> got.probes]
     ELSE [cache |-> (file :> got.tsConfig) @@ cache,
           tsConfig |-> got.tsConfig, resolved |-> TRUE,
           probes |-> got.probes]

retrieveTsConfig(cache, dsk, file, tsconfigPath) ==
  IF file \notin DOMAIN cache
  THEN LET got == getTsConfig(dsk, file, tsconfigPath)
       IN IF got.tsConfig = Undefined
          THEN [cache |-> cache, tsConfig |-> Undefined, resolved |-> TRUE,
                probes |-> got.probes]
          ELSE [cache |-> (file :> got.tsConfig) @@ cache,
                tsConfig |-> got.tsConfig, resolved |-> TRUE,
                probes |-> got.probes]
  ELSE [cache |-> cache, tsConfig |-> cache[file], resolved |-> FALSE,
        probes |-> <<>>]

(***************************************************************************)
(* FileCache.newContent, parseTsConfig, createService and the language     *)
(* service: collaborators of the server.  env is what the environment      *)
(* decides when a configuration is parsed and a service is created:        *)
(* env.parse ("ok" or "throws"), env.files (the file set of the            *)
(* descriptor) and env.program (whether getProgram yields a program).      *)
(***************************************************************************)
newContent(cache, file, content) == (file :> content) @@ cache

\* The built-in default configuration always parses; a configuration file
\* parses or not when it exists, and does not when it does not exist.
Envs(dsk, tsConfig, shapes) ==
  LET ok == {[parse |-> "ok", files |-> sh.files, program |-> sh.program] :
               sh \in shapes}
      throws == {[parse |-> "throws", files |-> {}, program |-> FALSE]}
  IN IF tsConfig = DEFAULT_TSCONFIG THEN ok
     ELSE IF tsConfig \in dsk THEN ok \cup throws ELSE throws

parseTsConfig(tsConfig, projectRoot, env) ==
  [threw |-> env.parse = "throws", files |-> env.files]

createService(files, env) == [files |-> files, program |-> env.program]

NoSourceFile == [file |-> Undefined, text |-> Undefined]

\* service.getProgram() followed by program.getSourceFile(file): the program
\* reads the file through the FileCache the service was created with.
getSourceFile(service, cache, file) ==
  IF service.program /\ file \in service.files /\ file \in DOMAIN cache
  THEN [file |-> file, text |-> cache[file]]
  ELSE NoSourceFile

getDiagnostics(sourceFile) ==
  IF \E i \in 1..Len(sourceFile.text) : sourceFile.text[i] = "!"
  THEN {<<"syntax error">> \o sourceFile.file} ELSE {}

getIssues(rules, sourceFile) ==
  {<<rules[i]>> \o sourceFile.text : i \in 1..Len(rules)}

(***************************************************************************)
(* SonarTsServer.createNewService                                          *)
(***************************************************************************)
\* mutant: a new service does not replace a registered one
createNewService_keepFirst(services, tsConfig, projectRoot, env) ==
  LET parsed == parseTsConfig(tsConfig, projectRoot, env)
      service == createService(parsed.files, env)
  IN IF parsed.threw
     THEN [threw |-> TRUE, services |-> services,
           service |-> [files |-> {}, program |-> FALSE]]
     ELSE [threw |-> FALSE, services |-> services @@ (tsConfig :> service),
           service |-> service]

\* mutant: the new service is registered for the default configuration too
createNewService_shared(services, tsConfig, projectRoot, env) ==
  LET parsed == parseTsConfig(tsConfig, projectRoot, env)
      service == createService(parsed.files, env)
  IN IF parsed.threw
     THEN [threw |-> TRUE, services |-> services,
           service |-> [files |-> {}, program |-> FALSE]]
     ELSE [threw |-> FALSE,
           services |-> (tsConfig :> service)
                          @@ (DEFAULT_TSCONFIG :> service) @@ services,
           service |-> service]

\* mutant: a new service is registered when it has a program
createNewService_ifProgram(services, tsConfig, projectRoot, env) ==
  LET parsed == parseTsConfig(tsConfig, projectRoot, env)
      service == createService(parsed.files, env)
  IN IF parsed.threw
     THEN [threw |-> TRUE, services |-> services,
           service |-> [files |-> {}, program |-> FALSE]]
     ELSE [threw |-> FALSE,
           services |-> IF service.program
                        THEN (tsConfig :> service) @@ services ELSE services,
           service |-> service]

createNewService(services, tsConfig, projectRoot, env) ==
  LET parsed == parseTsConfig(tsConfig, projectRoot, env)
      service == createService(parsed.files, env)
  IN IF parsed.threw
     THEN [threw |-> TRUE, services |-> services,
           service |-> [files |-> {}, program |-> FALSE]]
     ELSE [threw |-> FALSE, services |-> (tsConfig :> service) @@ services,
           service |-> service]

(***************************************************************************)
(* SonarTsServer.retrieveProgramAndSourceFile.  outcome is "found" (a      *)
(* program and a source file are returned), "none" (undefined is returned) *)
(* or "throws".                                                            *)
(***************************************************************************)
\* mutant: the registered service is not asked
registeredSourceFile_none(services, cache, file, tsConfig) == NoSourceFile

\* the source file of the registered service, if there is one
registeredSourceFile(services, cache, file, tsConfig) ==
  IF tsConfig \in DOMAIN services
  THEN getSourceFile(services[tsConfig], cache, file)
  ELSE NoSourceFile

retrieveProgramAndSourceFile(services, cache, file, tsConfig, projectRoot, env) ==
  LET fastFile == registeredSourceFile(services, cache, file, tsConfig)
      created == createNewService(services, tsConfig, projectRoot, env)
      newFile == getSourceFile(created.service, cache, file)
      rebuilt == [outcome |-> "none", services |-> created.services,
                  sourceFile |-> NoSourceFile, rebuilds |-> 1, parses |-> 1,
                  files |-> env.files]
  IN IF fastFile # NoSourceFile
     THEN [outcome |-> "found", services |-> services, sourceFile |-> fastFile,
           rebuilds |-> 0, parses |-> 0, files |-> {}]
     ELSE IF created.threw
     THEN [outcome |-> "throws", services |-> created.services,
           sourceFile |-> NoSourceFile, rebuilds |-> 0, parses |-> 1,
           files |-> {}]
     ELSE IF ~created.service.program THEN rebuilt
     ELSE IF newFile = NoSourceFile THEN rebuilt
     ELSE [rebuilt EXCEPT !.outcome = "found", !.sourceFile = newFile]

(***************************************************************************)
(* SonarTsServer.handleAnalysisRequest.  The result carries the three      *)
(* caches as the call leaves them, whether the call threw, the value it    *)
(* returned, and what it did on the way.                                   *)
(***************************************************************************)
NoAnswer == [none |-> {}]

\* mutant: the content of a file is cached once
cacheContent_once(fCache, request) ==
  IF request.file \in DOMAIN fCache THEN fCache
  ELSE newContent(fCache, request.file, request.content)

\* this.fileCache.newContent({ file, content })
cacheContent(fCache, request) ==
  newContent(fCache, request.file, request.content)

\* mutant: one diagnostic is not enough to skip the rules
analyse_moreThanOne(rules, sourceFile) ==
  LET diagnostics == getDiagnostics(sourceFile)
  IN IF Cardinality(diagnostics) > 1
     THEN [answer |-> [diagnostics |-> diagnostics],
           diagnosticsCalls |-> 1, issuesCalls |-> 0]
     ELSE [answer |-> [issues |-> getIssues(rules, sourceFile)],
           diagnosticsCalls |-> 1, issuesCalls |-> 1]

\* the diagnostics, and the issues when there are no diagnostics
analyse(rules, sourceFile) ==
  LET diagnostics == getDiagnostics(sourceFile)
  IN IF diagnostics # {}
     THEN [answer |-> [diagnostics |-> diagnostics],
           diagnosticsCalls |-> 1, issuesCalls |-> 0]
     ELSE [answer |-> [issues |-> getIssues(rules, sourceFile)],
           diagnosticsCalls |-> 1, issuesCalls |-> 1]

handleAnalysisRequest(fCache, cCache, services, dsk, request, env) ==
  LET file == request.file
      fc == cacheContent(fCache, request)
      cfg == retrieveTsConfig(cCache, dsk, file, request.tsconfigPath)
      pas == retrieveProgramAndSourceFile(services, fc, file, cfg.tsConfig,
                                          request.projectRoot, env)
      result == analyse(request.rules, pas.sourceFile)
      base == [fileCache |-> fc, tsConfigCache |-> cfg.cache,
               services |-> services, threw |-> FALSE, answer |-> EMPTY_ANSWER,
               tsConfig |-> cfg.tsConfig, resolved |-> cfg.resolved,
               probes |-> cfg.probes,
               lookup |-> "skipped", sourceFile |-> NoSourceFile,
               rebuilds |-> 0, parses |-> 0, files |-> {},
               diagnosticsCalls |-> 0, issuesCalls |-> 0]
      looked == [base EXCEPT !.services = pas.services,
                             !.lookup = pas.outcome,
                             !.sourceFile = pas.sourceFile,
                             !.rebuilds = pas.rebuilds,
                             !.parses = pas.parses,
                             !.files = pas.files]
  IN IF cfg.tsConfig = Undefined THEN base
     ELSE IF pas.outcome = "throws"
     THEN [looked EXCEPT !.threw = TRUE, !.answer = NoAnswer]
     ELSE IF pas.outcome = "none" THEN looked
     ELSE [looked EXCEPT !.answer = result.answer,
                         !.diagnosticsCalls = result.diagnosticsCalls,
                         !.issuesCalls = result.issuesCalls]

(***************************************************************************)
(* The connection.  The client serializes a request as a JSON text and     *)
(* encodes it in UTF-8; the server decodes every chunk on its own          *)
(* (accumulatedData += data) and parses what it has accumulated.           *)
(* A character is <<"ch", c>>; its bytes are itself, or a lead and a       *)
(* continuation byte for the two-byte character "E".                       *)
(***************************************************************************)
OpenBrace == <<"{">>
CloseBrace == <<"}">>
Quote == <<"quote">>
Replacement == <<"ch", "REPL">>

RECURSIVE chars(_)
chars(text) ==
  IF text = <<>> THEN <<>> ELSE <<(<<"ch", Head(text)>>)>> \o chars(Tail(text))

JSONstringify(request) ==
  <<OpenBrace, <<"file">> \o request.file, <<"rules">> \o request.rules, Quote>>
  \o chars(request.content)
  \o <<Quote, <<"projectRoot">> \o request.projectRoot,
       <<"tsconfigPath">> \o request.tsconfigPath, CloseBrace>>

RECURSIVE utf8Encode(_)
utf8Encode(str) ==
  IF str = <<>> THEN <<>>
  ELSE IF Head(str) = <<"ch", "E">>
  THEN <<(<<"lead", "E">>), (<<"cont", "E">>)>> \o utf8Encode(Tail(str))
  ELSE <<Head(str)>> \o utf8Encode(Tail(str))

\* Buffer.toString(): a lead byte without its continuation byte, and a
\* continuation byte without its lead byte, decode to U+FFFD.
RECURSIVE utf8Decode(_)
utf8Decode(bytes) ==
  IF bytes = <<>> THEN <<>>
  ELSE IF Head(bytes)[1] = "lead"
  THEN IF Len(bytes) >= 2 /\ bytes[2][1] = "cont"
       THEN <<(<<"ch", Head(bytes)[2]>>)>> \o utf8Decode(Tail(Tail(bytes)))
       ELSE <<Replacement>> \o utf8Decode(Tail(bytes))
  ELSE IF Head(bytes)[1] = "cont"
  THEN <<Replacement>> \o utf8Decode(Tail(bytes))
  ELSE <<Head(bytes)>> \o utf8Decode(Tail(bytes))

NoRequest ==
  [file |-> Undefined, rules |-> Undefined, content |-> Undefined,
   projectRoot |-> Undefined, tsconfigPath |-> Undefined]

\* JSON.parse: the request the text denotes, or NoRequest when JSON.parse
\* throws (the text is not one complete JSON value).
JSONparse(str) ==
  LET n == Len(str)
      closing == {k \in 5..n : str[k] = Quote}
      k == IF closing = {} THEN 0
           ELSE CHOOSE q \in closing : \A q2 \in closing : q <= q2
  IN IF /\ n >= 8
        /\ str[1] = OpenBrace
        /\ str[2][1] = "file"
        /\ str[3][1] = "rules"
        /\ str[4] = Quote
        /\ k # 0
        /\ n = k + 3
        /\ \A i \in 5..(k - 1) : str[i][1] = "ch"
        /\ str[k + 1][1] = "projectRoot"
        /\ str[k + 2][1] = "tsconfigPath"
        /\ str[n] = CloseBrace
     THEN [file |-> Tail(str[2]), rules |-> Tail(str[3]),
           content |-> [i \in 1..(k - 5) |-> str[4 + i][2]],
           projectRoot |-> Tail(str[k + 1]),
           tsconfigPath |-> Tail(str[k + 2])]
     ELSE NoRequest

(***************************************************************************)
(* areEquivalent.  A ts.Node is a record with its kind, its text (getText) *)
(* and its children (getChildren); a ts.Node[] is a record of the same     *)
(* shape that has no kind, with its elements as children.                  *)
(***************************************************************************)
NoKind == "undefined"

Node(kind, text, children) ==
  [kind |-> kind, text |-> text, children |-> children]

NodeArray(nodes) == [kind |-> NoKind, text |-> "", children |-> nodes]

COMPARED_BY_TEXT ==
  {"NumericLiteral", "StringLiteral", "RegularExpressionLiteral",
   "Identifier", "NoSubstitutionTemplateLiteral", "TemplateHead",
   "TemplateMiddle", "TemplateTail", "JsxText"}

getChildCount(node) == Len(node.children)

getChildren(node) == NodeArray(node.children)

getText(node) == node.text

is(node, kinds) == node.kind \in kinds

isNode(node) == node.kind # NoKind

isNodeArray(node) == node.kind = NoKind

RECURSIVE areEquivalent(_, _, _)
RECURSIVE areEquivalentNodes(_, _, _)

\* mutant: the nodes of two sequences are compared in any order
areEquivalent_unordered(a, b, flag) ==
  IF isNode(a) /\ isNode(b)
  THEN areEquivalentNodes(a, b, flag)
  ELSE IF isNodeArray(a) /\ isNodeArray(b)
  THEN /\ Len(a.children) = Len(b.children)
       /\ \A i \in 1..Len(a.children) : \E j \in 1..Len(b.children) :
            areEquivalent(a.children[i], b.children[j], flag)
  ELSE FALSE

\* mutant: two sequences without nodes are not equivalent
areEquivalent_nonEmpty(a, b, flag) ==
  IF isNode(a) /\ isNode(b)
  THEN areEquivalentNodes(a, b, flag)
  ELSE IF isNodeArray(a) /\ isNodeArray(b)
  THEN /\ Len(a.children) = Len(b.children)
       /\ Len(a.children) > 0
       /\ \A index \in 1..Len(a.children) :
            areEquivalent(a.children[index], b.children[index], flag)
  ELSE FALSE

\* mutant: a node is compared with the only node of a sequence
areEquivalent_unwrap(a, b, flag) ==
  IF isNode(a) /\ isNode(b)
  THEN areEquivalentNodes(a, b, flag)
  ELSE IF isNodeArray(a) /\ isNodeArray(b)
  THEN /\ Len(a.children) = Len(b.children)
       /\ \A index \in 1..Len(a.children) :
            areEquivalent(a.children[index], b.children[index], flag)
  ELSE IF isNode(a) /\ Len(b.children) = 1
  THEN areEquivalentNodes(a, b.children[1], flag)
  ELSE IF isNode(b) /\ Len(a.children) = 1
  THEN areEquivalentNodes(a.children[1], b, flag)
  ELSE FALSE

\* mutant: the first sequence may be shorter than the second
areEquivalent_prefix(a, b, flag) ==
  IF isNode(a) /\ isNode(b)
  THEN areEquivalentNodes(a, b, flag)
  ELSE IF isNodeArray(a) /\ isNodeArray(b)
  THEN /\ Len(a.children) <= Len(b.children)
       /\ \A index \in 1..Len(a.children) :
            areEquivalent(a.children[index], b.children[index], flag)
  ELSE FALSE

\* mutant: ignoreLiterals relaxes every kind that is compared by text
areEquivalentNodes_relaxAll(a, b, flag) ==
  IF a.kind # b.kind THEN FALSE
  ELSE LET childCount == getChildCount(a)
       IN IF childCount # getChildCount(b) THEN FALSE
          ELSE IF childCount = 0 /\ a.kind \in COMPARED_BY_TEXT
          THEN IF flag THEN TRUE ELSE getText(a) = getText(b)
          ELSE areEquivalent(getChildren(a), getChildren(b), flag)

\* mutant: the kinds of two nodes that have children are not compared
areEquivalentNodes_skipKind(a, b, flag) ==
  LET childCount == getChildCount(a)
  IN IF childCount = 0 /\ a.kind # b.kind THEN FALSE
     ELSE IF childCount # getChildCount(b) THEN FALSE
     ELSE IF childCount = 0 /\ a.kind \in COMPARED_BY_TEXT
     THEN IF flag /\ is(a, {"StringLiteral", "NumericLiteral"})
          THEN TRUE
          ELSE getText(a) = getText(b)
     ELSE areEquivalent(getChildren(a), getChildren(b), flag)

areEquivalent(a, b, flag) ==
  IF isNode(a) /\ isNode(b)
  THEN areEquivalentNodes(a, b, flag)
  ELSE IF isNodeArray(a) /\ isNodeArray(b)
  THEN /\ Len(a.children) = Len(b.children)
       /\ \A index \in 1..Len(a.children) :
            areEquivalent(a.children[index], b.children[index], flag)
  ELSE FALSE

areEquivalentNodes(a, b, flag) ==
  IF a.kind # b.kind THEN FALSE
  ELSE LET childCount == getChildCount(a)
       IN IF childCount # getChildCount(b) THEN FALSE
          ELSE IF childCount = 0 /\ a.kind \in COMPARED_BY_TEXT
          THEN IF flag /\ is(a, {"StringLiteral", "NumericLiteral"})
               THEN TRUE
               ELSE getText(a) = getText(b)
          ELSE areEquivalent(getChildren(a), getChildren(b), flag)

\* The arguments of SpecEquivalent: childless nodes of every kind compared
\* by text and of one kind that is not; nodes with up to MaxChildren
\* children; nodes with a grandchild; sequences.
Texts == {"1", "2"}

Leaves ==
  {Node(kind, text, <<>>) :
     kind \in COMPARED_BY_TEXT \cup {"ThisKeyword"}, text \in Texts}

Atoms ==
  {Node(kind, text, <<>>) :
     kind \in {"NumericLiteral", "Identifier"}, text \in Texts}

ChildSeqs == UNION {[1..n -> Atoms] : n \in 0..MaxChildren}

Calls == {Node("CallExpression", "", children) : children \in ChildSeqs}

\* nodes of a kind compared by text that have a child
Tagged ==
  {Node("Identifier", text, <<child>>) :
     text \in Texts, child \in {Node("NumericLiteral", t, <<>>) : t \in Texts}}

Nested ==
  {Node(kind, "", <<Node("CallExpression", "", <<child>>)>>) :
     kind \in {"Block", "CallExpression"}, child \in Atoms}

Trees == Leaves \cup Calls \cup Tagged \cup Nested

Sequences ==
  {NodeArray(nodes) : nodes \in ChildSeqs}
  \cup {NodeArray(<<node>>) : node \in Nested}

Arguments == Trees \cup Sequences

(***************************************************************************)
(* History: what the last step did, when it was a "data" event.            *)
(***************************************************************************)
Idle ==
  [event |-> "idle", completed |-> <<>>, matched |-> FALSE, parsed |-> FALSE,
   request |-> NoRequest, threw |-> FALSE, written |-> <<>>,
   cached |-> Undefined, previousText |-> Undefined,
   registered |-> FALSE, contained |-> FALSE, registryChanged |-> FALSE,
   tsConfig |-> Undefined, resolved |-> FALSE, probes |-> <<>>,
   lookup |-> "skipped",
   sourceFile |-> NoSourceFile, rebuilds |-> 0, parses |-> 0, files |-> {},
   program |-> FALSE, diagnosticsCalls |-> 0, issuesCalls |-> 0]

SameRequest(a, b) ==
  /\ a.file = b.file
  /\ a.rules = b.rules
  /\ a.projectRoot = b.projectRoot
  /\ a.tsconfigPath = b.tsconfigPath

\* expected is the request the client expects the next response for
Record(completed, expected, request, h, env) ==
  LET file == request.file
      known == h.tsConfig \in DOMAIN servicesPerTsconfig
  IN [event |-> "data", completed |-> completed,
      matched |-> ~h.threw /\ SameRequest(expected, request),
      parsed |-> TRUE,
      request |-> request, threw |-> h.threw,
      written |-> IF h.threw THEN <<>> ELSE <<h.answer>>,
      cached |-> IF file \in DOMAIN tsConfigCache
                 THEN tsConfigCache[file] ELSE Undefined,
      previousText |-> IF file \in DOMAIN fileCache
                       THEN fileCache[file] ELSE Undefined,
      registered |-> known,
      contained |-> /\ known
                    /\ servicesPerTsconfig[h.tsConfig].program
                    /\ file \in servicesPerTsconfig[h.tsConfig].files,
      registryChanged |-> h.services # servicesPerTsconfig,
      tsConfig |-> h.tsConfig, resolved |-> h.resolved, probes |-> h.probes,
      lookup |-> h.lookup,
      sourceFile |-> h.sourceFile, rebuilds |-> h.rebuilds,
      parses |-> h.parses, files |-> h.files,
      program |-> h.rebuilds = 1 /\ env.program,
      diagnosticsCalls |-> h.diagnosticsCalls, issuesCalls |-> h.issuesCalls]

(***************************************************************************)
(* start(): the "data" handler of the connection, on the chunk data.       *)
(* completed and expected are history: the requests whose last byte is in  *)
(* the chunk, and the request the client expects the next response for.    *)
(***************************************************************************)
OnData(data, completed, expected, shapes) ==
  \E request \in {JSONparse(accumulatedData \o utf8Decode(data))} :
    IF request = NoRequest
    THEN /\ accumulatedData' = accumulatedData \o utf8Decode(data)
         /\ last' = [Idle EXCEPT !.event = "data", !.completed = completed]
         /\ UNCHANGED <<fileCache, tsConfigCache, servicesPerTsconfig>>
    ELSE \E cfg \in {retrieveTsConfig(tsConfigCache, disk, request.file,
                                      request.tsconfigPath)} :
         \E env \in Envs(disk, cfg.tsConfig, shapes) :
         \E h \in {handleAnalysisRequest(fileCache, tsConfigCache,
                                         servicesPerTsconfig, disk,
                                         request, env)} :
           /\ accumulatedData' = <<>>
           /\ fileCache' = h.fileCache
           /\ tsConfigCache' = h.tsConfigCache
           /\ servicesPerTsconfig' = h.services
           /\ last' = Record(completed, expected, request, h, env)

(***************************************************************************)
(* Steps                                                                   *)
(***************************************************************************)
Empty ==
  /\ accumulatedData = <<>>
  /\ fileCache = <<>>
  /\ tsConfigCache = <<>>
  /\ servicesPerTsconfig = <<>>
  /\ wire = <<>>
  /\ inflight = <<>>
  /\ last = Idle

\* areEquivalent has not been called
Uncompared ==
  /\ first = NodeArray(<<>>)
  /\ second = NodeArray(<<>>)
  /\ ignoreLiterals = FALSE
  /\ returned = <<>>

\* a configuration file is created or removed on disk
DiskChange ==
  /\ \E p \in DiskPaths :
       disk' = IF p \in disk THEN disk \ {p} ELSE disk \cup {p}
  /\ last' = Idle
  /\ UNCHANGED <<accumulatedData, fileCache, tsConfigCache,
                 servicesPerTsconfig, wire, inflight, compared>>

\* the client sends a request of the set requests, which arrives as one chunk
Request(requests, shapes) ==
  /\ wire = <<>>
  /\ \E request \in requests :
       OnData(utf8Encode(JSONstringify(request)), <<request>>, request,
              shapes)
  /\ UNCHANGED <<disk, wire, inflight, compared>>

\* the client sends a request without waiting for earlier responses
ClientSend ==
  /\ Len(inflight) < MaxInFlight
  /\ \E request \in WireRequests :
       /\ wire' = wire \o utf8Encode(JSONstringify(request))
       /\ inflight' = Append(inflight, [request |-> request, delivered |-> FALSE])
  /\ last' = Idle
  /\ UNCHANGED <<accumulatedData, fileCache, tsConfigCache,
                 servicesPerTsconfig, disk, compared>>

\* the first k requests of queue that are not delivered become delivered
Delivered(queue, k) ==
  LET before(i) == Cardinality({j \in 1..(i - 1) : ~queue[j].delivered})
  IN [i \in 1..Len(queue) |->
        [queue[i] EXCEPT !.delivered = queue[i].delivered \/ before(i) < k]]

\* the connection delivers the next n bytes as one chunk; the client takes a
\* response as the response to the oldest request it has no response for
Deliver ==
  /\ wire # <<>>
  /\ \E n \in 1..Len(wire) :
       LET data == SubSeq(wire, 1, n)
           ends == Cardinality({i \in 1..n : data[i] = CloseBrace})
           undelivered == SelectSeq(inflight, LAMBDA e : ~e.delivered)
           completed == [i \in 1..ends |-> undelivered[i].request]
           queue == Delivered(inflight, ends)
       IN /\ OnData(data, completed, Head(queue).request, WireShapes)
          /\ wire' = SubSeq(wire, n + 1, Len(wire))
          /\ inflight' = IF last'.written # <<>> THEN Tail(queue) ELSE queue
  /\ UNCHANGED <<disk, compared>>

(***************************************************************************)
(* Spec: the model provider, on a disk that has both configuration files.  *)
(***************************************************************************)
Init == Empty /\ Uncompared /\ disk = {FarConfig, CustomConfig}

ProviderRequest == Request(ProviderRequests, ProviderShapes)

Next == ProviderRequest

Spec == Init /\ [][Next]_vars

(***************************************************************************)
(* SpecConfig: the configuration resolver, on a disk that changes.         *)
(***************************************************************************)
InitConfig == Empty /\ Uncompared /\ disk \in SUBSET DiskPaths

ConfigRequest == Request(ConfigRequests, ConfigShapes)

NextConfig == DiskChange \/ ConfigRequest

SpecConfig == InitConfig /\ [][NextConfig]_vars

(***************************************************************************)
(* SpecWire: the connection, with chunks of any length.                    *)
(***************************************************************************)
InitWire == Empty /\ Uncompared /\ disk = {FarConfig, CustomConfig}

NextWire == ClientSend \/ Deliver

SpecWire == InitWire /\ [][NextWire]_vars

(***************************************************************************)
(* SpecFraming: the connection, on a disk without configuration files:     *)
(* every request resolves to the default configuration or to none, and     *)
(* no request makes parseTsConfig fail.                                    *)
(***************************************************************************)
InitFraming == Empty /\ Uncompared /\ disk = {}

SpecFraming == InitFraming /\ [][NextWire]_vars

(***************************************************************************)
(* SpecEquivalent: areEquivalent, called once on arguments of Arguments.   *)
(***************************************************************************)
InitEquivalent ==
  /\ Empty
  /\ disk = {}
  /\ first \in Arguments
  /\ second \in Arguments
  /\ ignoreLiterals \in BOOLEAN
  /\ returned = <<>>

Compare ==
  /\ returned = <<>>
  /\ returned' = <<areEquivalent(first, second, ignoreLiterals)>>
  /\ UNCHANGED <<server, first, second, ignoreLiterals>>

NextEquivalent == Compare

SpecEquivalent == InitEquivalent /\ [][NextEquivalent]_vars

(***************************************************************************)
(* Claims                                                                  *)
(***************************************************************************)

\* C1: on one connection exactly one response is written per request, in
\* request order: no request whose bytes have all been delivered is left
\* without a response (also when processing it throws, and when two requests
\* arrive in one chunk), and every response written answers the oldest
\* request that has no response yet.
C1_OneResponsePerRequestInOrder ==
  /\ \A i \in 1..Len(inflight) : ~inflight[i].delivered
  /\ last.written # <<>> => last.matched

\* C2: when one serialized request is split into two or more chunks, nothing
\* is processed, nothing is written and the caches are unchanged while only
\* a proper prefix has arrived; after the last chunk exactly one request is
\* parsed, exactly one response is written and the buffer is empty.
C2_Chunk ==
  /\ Len(inflight) = 1
  /\ ~inflight[1].delivered
  /\ Len(wire') < Len(wire)
  /\ ~(accumulatedData = <<>> /\ wire' = <<>>)

C2_SplitRequestOneResponse ==
  [][C2_Chunk =>
       IF wire' # <<>>
       THEN /\ ~last'.parsed
            /\ last'.written = <<>>
            /\ UNCHANGED <<fileCache, tsConfigCache, servicesPerTsconfig>>
       ELSE /\ last'.parsed
            /\ Len(last'.written) = 1
            /\ accumulatedData' = <<>>]_vars

\* the last step handled a request and resolved a configuration for it
Handled == last.event = "data" /\ last.parsed

Looked == Handled /\ last.tsConfig # Undefined

\* what a request is answered with when a source file with its content is
\* analysed
Expected(request) ==
  IF \E i \in 1..Len(request.content) : request.content[i] = "!"
  THEN [diagnostics |-> {<<"syntax error">> \o request.file}]
  ELSE [issues |-> {<<request.rules[i]>> \o request.content :
                      i \in 1..Len(request.rules)}]

\* C3: when a model is registered for the configuration path and contains
\* the requested file, its SourceFile is returned without a rebuild: no model
\* is created, the descriptor is not resolved again and the registry is
\* unchanged; a request that repeats the previous one (same file, content,
\* rule set and configuration path) then performs no rebuild and is answered
\* as the previous one was.
C3_FastPath ==
  Looked /\ last.contained =>
    /\ last.lookup = "found"
    /\ last.sourceFile.file = last.request.file
    /\ last.rebuilds = 0
    /\ last.parses = 0
    /\ ~last.registryChanged

C3_Repeated ==
  /\ Handled
  /\ Looked'
  /\ last'.contained
  /\ last'.request = last.request
  /\ last'.tsConfig = last.tsConfig

C3_FastPathNoRebuild ==
  [][/\ C3_FastPath'
     /\ C3_Repeated => last'.rebuilds = 0 /\ last'.written = last.written]_vars

C3_Witness ==
  /\ Looked
  /\ last.contained
  /\ last.rebuilds = 0
  /\ last.previousText = last.request.content
  /\ last.written = <<Expected(last.request)>>

\* C4, as claimed: a request for a file that the registered model of its
\* configuration path does not contain creates and registers exactly one new
\* model, and succeeds whenever the file is in the file set of the freshly
\* resolved descriptor.
C4_Case == Looked /\ last.registered /\ ~last.contained

C4_OneRebuildAndSuccess ==
  C4_Case =>
    /\ last.rebuilds = 1
    /\ last.request.file \in last.files => last.lookup = "found"

\* C4, amended: such a request resolves the descriptor exactly once; unless
\* that fails, it creates exactly one new model and registers it under the
\* configuration path, and it succeeds whenever moreover the new model has a
\* program and the file is in the file set of the descriptor.
C4_OneRebuildAttempt ==
  C4_Case =>
    /\ last.parses = 1
    /\ last.threw => last.rebuilds = 0 /\ ~last.registryChanged
    /\ ~last.threw =>
         /\ last.rebuilds = 1
         /\ last.tsConfig \in DOMAIN servicesPerTsconfig
         /\ servicesPerTsconfig[last.tsConfig] =
              [files |-> last.files, program |-> last.program]
         /\ last.program /\ last.request.file \in last.files =>
              /\ last.lookup = "found"
              /\ last.sourceFile.file = last.request.file

C4_Witness ==
  /\ C4_Case
  /\ last.rebuilds = 1
  /\ last.registryChanged
  /\ last.lookup = "found"

\* C5: every request writes its content into the file cache before the
\* configuration is resolved and the model is looked up, so the SourceFile
\* that answers a request has the content the request carries, on the fast
\* path as after a rebuild, never the content of an earlier request.
C5_NeverStale ==
  Handled =>
    /\ last.request.file \in DOMAIN fileCache
    /\ fileCache[last.request.file] = last.request.content
    /\ last.lookup = "found" =>
         /\ last.sourceFile.text = last.request.content
         /\ last.written = <<Expected(last.request)>>

C5_Witness ==
  /\ Looked
  /\ last.contained
  /\ last.lookup = "found"
  /\ last.previousText # Undefined
  /\ last.previousText # last.request.content
  /\ last.sourceFile.text = last.request.content

\* C6: each failure to build the model (the descriptor cannot be parsed, the
\* new service has no program, the new program does not contain the file)
\* is answered with the empty result: the response is written, no rule is
\* evaluated, and the server is ready for the next request.
C6_FailuresAnswerEmpty ==
  Looked /\ last.lookup \in {"throws", "none"} =>
    /\ last.written = <<EMPTY_ANSWER>>
    /\ last.issuesCalls = 0
    /\ accumulatedData = <<>>

\* C7, as claimed: for every request that carries an explicit configuration
\* path, resolution succeeds iff the path exists on disk, the explicit path
\* is then the configuration used, and otherwise resolution reports
\* NotFound, searches no ancestor directory, and the request is answered
\* with the empty result.
C7_Explicit == Handled /\ last.request.tsconfigPath # Undefined

C7_Resolution ==
  LET explicit == last.request.tsconfigPath
  IN /\ last.tsConfig # Undefined <=> explicit \in disk
     /\ last.tsConfig # Undefined => last.tsConfig = explicit
     /\ explicit \notin disk =>
          /\ last.tsConfig = Undefined
          /\ last.probes = <<explicit>>
          /\ last.lookup = "skipped"
          /\ last.written = <<EMPTY_ANSWER>>

C7_ExplicitPathDecides == C7_Explicit => C7_Resolution

\* C7, amended: the same, for every request that carries an explicit
\* configuration path and whose file has no entry in the per-file
\* configuration cache; for a file that has one, the cached configuration is
\* used and the explicit path is not looked at.
C7_ExplicitPathDecidesUncached ==
  C7_Explicit =>
    IF last.cached = Undefined THEN C7_Resolution
    ELSE last.tsConfig = last.cached /\ last.probes = <<>>

C7_Witness ==
  /\ C7_Explicit
  /\ last.cached = Undefined
  /\ last.request.tsconfigPath \notin disk
  /\ FarConfig \in disk
  /\ last.written = <<EMPTY_ANSWER>>

\* C8: once a file path is resolved to a configuration, every later request
\* for it uses that configuration, whatever changes on disk: an entry of the
\* per-file configuration cache is never changed or removed, and only a
\* successful resolution is stored (NotFound is not, and the next request
\* resolves again).
C8_Step ==
  /\ \A f \in DOMAIN tsConfigCache :
       f \in DOMAIN tsConfigCache' /\ tsConfigCache'[f] = tsConfigCache[f]
  /\ Handled' =>
       LET file == last'.request.file
       IN /\ file \in DOMAIN tsConfigCache =>
               /\ last'.tsConfig = tsConfigCache[file]
               /\ ~last'.resolved
          /\ file \notin DOMAIN tsConfigCache => last'.resolved
          /\ last'.tsConfig = Undefined <=> file \notin DOMAIN tsConfigCache'
          /\ last'.tsConfig # Undefined => tsConfigCache'[file] = last'.tsConfig

C8_ConfigCachedForLife == [][C8_Step]_vars

\* the cached configuration is used although resolving now would give
\* another one
C8_Witness ==
  /\ Handled
  /\ ~last.resolved
  /\ last.tsConfig = FarConfig
  /\ getTsConfig(disk, last.request.file, last.request.tsconfigPath).tsConfig
       # last.tsConfig

\* the configuration files of the ancestor directories of a file
AncestorConfigs(file) ==
  {Append(SubSeq(file, 1, k), TsConfigName) : k \in 0..(Len(file) - 1)}

\* C9, as claimed: without an explicit configuration path and with no
\* configuration file in any ancestor directory, the walk ends at the root,
\* resolution gives the default sentinel and the request gets a response
\* through the model pipeline.
C9_Case ==
  /\ Handled
  /\ last.request.tsconfigPath = Undefined
  /\ AncestorConfigs(last.request.file) \cap disk = {}

C9_Default ==
  /\ last.tsConfig = DEFAULT_TSCONFIG
  /\ last.lookup \in {"found", "none"}
  /\ Len(last.written) = 1

C9_DefaultWithoutConfig == C9_Case => C9_Default

\* C9, amended: the same, when the file has no entry in the per-file
\* configuration cache; the walk then probes every ancestor directory once,
\* the root last.
C9_DefaultWithoutConfigUncached ==
  C9_Case /\ last.cached = Undefined =>
    /\ C9_Default
    /\ Len(last.probes) = Len(last.request.file)
    /\ \A i \in 1..Len(last.probes) :
         last.probes[i] =
           Append(SubSeq(last.request.file, 1, Len(last.request.file) - i),
                  TsConfigName)

C9_Witness ==
  /\ C9_Case
  /\ last.cached = Undefined
  /\ last.request.file = File1
  /\ last.tsConfig = DEFAULT_TSCONFIG
  /\ last.lookup = "found"
  /\ last.probes[Len(last.probes)] = <<TsConfigName>>

\* C10: a response is an issues payload or a diagnostics payload, never
\* both: with a diagnostic on the SourceFile the response has diagnostics,
\* no issues, and no rule is evaluated, whatever the rule set; without, the
\* rules are evaluated exactly once and the response carries their issues.
C10_IssuesOrDiagnostics ==
  Handled =>
    /\ \A i \in 1..Len(last.written) :
         DOMAIN last.written[i] \in {{"issues"}, {"diagnostics"}}
    /\ last.lookup = "found" /\ getDiagnostics(last.sourceFile) # {} =>
         /\ last.written = <<[diagnostics |-> getDiagnostics(last.sourceFile)]>>
         /\ last.issuesCalls = 0
    /\ last.lookup = "found" /\ getDiagnostics(last.sourceFile) = {} =>
         /\ last.written =
              <<[issues |-> getIssues(last.request.rules, last.sourceFile)]>>
         /\ last.issuesCalls = 1
    /\ last.lookup # "found" => last.issuesCalls = 0

C10_Witness ==
  /\ Handled
  /\ last.lookup = "found"
  /\ last.request.rules # <<>>
  /\ getDiagnostics(last.sourceFile) # {}
  /\ last.written = <<[diagnostics |-> getDiagnostics(last.sourceFile)]>>
  /\ last.issuesCalls = 0

\* C11: the registry holds one model per configuration path, and a model
\* under one path only: a step that does not rebuild leaves the registry as
\* it is; a rebuild for a configuration path puts the model it has just
\* created under that path, in the place of the model registered there
\* before, and adds, removes or changes the entry of no other path.
C11_Step ==
  LET tsConfig == last'.tsConfig
      others == (DOMAIN servicesPerTsconfig \cup DOMAIN servicesPerTsconfig')
                  \ {tsConfig}
  IN /\ \A p \in others :
          /\ p \in DOMAIN servicesPerTsconfig
          /\ p \in DOMAIN servicesPerTsconfig'
          /\ servicesPerTsconfig'[p] = servicesPerTsconfig[p]
     /\ last'.rebuilds = 0 => servicesPerTsconfig' = servicesPerTsconfig
     /\ last'.rebuilds = 1 =>
          /\ tsConfig \in DOMAIN servicesPerTsconfig'
          /\ servicesPerTsconfig'[tsConfig] =
               [files |-> last'.files, program |-> last'.program]

C11_OneModelPerPath == [][C11_Step]_vars

\* two paths have a model, and the model of one of them has just been
\* replaced by a different one
C11_Witness ==
  /\ Looked
  /\ last.registered
  /\ last.rebuilds = 1
  /\ last.registryChanged
  /\ DOMAIN servicesPerTsconfig = {FarConfig, CustomConfig}
  /\ servicesPerTsconfig[FarConfig] # servicesPerTsconfig[CustomConfig]

\* areEquivalent has returned
Compared == returned # <<>>

\* C12: for two sequences areEquivalent returns true iff they have the same
\* length and the nodes at every position are equivalent; the order counts:
\* [a, b] and [b, a] are not equivalent when a and b are not, with either
\* value of ignoreLiterals.
C12_Swapped ==
  /\ Len(first.children) = 2
  /\ Len(second.children) = 2
  /\ first.children[1] = second.children[2]
  /\ first.children[2] = second.children[1]
  /\ ~areEquivalent(first.children[1], first.children[2], ignoreLiterals)

C12_SequencesByPosition ==
  Compared /\ isNodeArray(first) /\ isNodeArray(second) =>
    /\ returned[1] =
         (/\ Len(first.children) = Len(second.children)
          /\ \A index \in 1..Len(first.children) :
               areEquivalent(first.children[index], second.children[index],
                             ignoreLiterals))
    /\ C12_Swapped => ~returned[1]

C12_Witness ==
  /\ Compared
  /\ isNodeArray(first)
  /\ isNodeArray(second)
  /\ C12_Swapped
  /\ ignoreLiterals
  /\ first.children[1].kind = "NumericLiteral"
  /\ first.children[2].kind = "Identifier"
  /\ returned = <<FALSE>>

\* C13: two childless nodes of one kind compared by text, with different
\* text, are equivalent iff ignoreLiterals is true and the kind is
\* NumericLiteral or StringLiteral: ignoreLiterals makes no other kind
\* compared by text equivalent.
C13_Case ==
  /\ Compared
  /\ isNode(first)
  /\ isNode(second)
  /\ first.kind = second.kind
  /\ first.kind \in COMPARED_BY_TEXT
  /\ first.children = <<>>
  /\ second.children = <<>>
  /\ first.text # second.text

C13_LiteralsOnly ==
  C13_Case =>
    returned[1] =
      (ignoreLiterals /\ first.kind \in {"NumericLiteral", "StringLiteral"})

C13_Witness ==
  /\ C13_Case
  /\ ignoreLiterals
  /\ first.kind = "StringLiteral"
  /\ returned = <<TRUE>>

\* C14: areEquivalent is reflexive: a tree is equivalent to itself and a
\* sequence of trees is equivalent to itself, with either value of
\* ignoreLiterals.
C14_Reflexive == Compared /\ first = second => returned = <<TRUE>>

C14_Witness ==
  /\ Compared
  /\ first = second
  /\ first \in Nested
  /\ ~ignoreLiterals
  /\ returned = <<TRUE>>

\* C15: two nodes of different kinds, or with different numbers of
\* children, are not equivalent, whatever their children, their text and
\* ignoreLiterals are; so two trees with one child that differ in the kind
\* of the root only are not equivalent.
C15_KindAndChildCount ==
  /\ Compared
  /\ isNode(first)
  /\ isNode(second)
  /\ \/ first.kind # second.kind
     \/ Len(first.children) # Len(second.children)
  => returned = <<FALSE>>

C15_Witness ==
  /\ Compared
  /\ isNode(first)
  /\ isNode(second)
  /\ first.kind # second.kind
  /\ Len(first.children) = 1
  /\ first.children = second.children
  /\ first.text = second.text
  /\ returned = <<FALSE>>

\* C16: a node and a sequence are not equivalent, in either order of the
\* arguments and with either value of ignoreLiterals, also when the
\* sequence has one node, equivalent to the single node.
C16_NodeAgainstSequence ==
  Compared /\ isNode(first) # isNode(second) => returned = <<FALSE>>

C16_Witness ==
  /\ Compared
  /\ isNodeArray(first)
  /\ isNode(second)
  /\ Len(first.children) = 1
  /\ areEquivalent(first.children[1], second, ignoreLiterals)
  /\ returned = <<FALSE>>

\* C20: areEquivalent is symmetric, and ignoreLiterals only widens it: the
\* result is the same with the arguments exchanged, and what is equivalent
\* without ignoreLiterals is equivalent with it.
C20_SymmetricAndWider ==
  Compared =>
    /\ returned[1] = areEquivalent(second, first, ignoreLiterals)
    /\ areEquivalent(first, second, FALSE) =>
         areEquivalent(first, second, TRUE)

C20_Witness ==
  /\ Compared
  /\ first # second
  /\ first \in Calls
  /\ ignoreLiterals
  /\ returned = <<TRUE>>
  /\ ~areEquivalent(first, second, FALSE)
  /\ areEquivalent(second, first, TRUE)

\* C17, as claimed: for a request without an explicit configuration path
\* the directories are probed from the parent directory of the file upward,
\* one after the other, up to the first that has a configuration file,
\* which is the result: never the file of a farther ancestor when a nearer
\* one has one, and the path of the file itself is not probed as a
\* directory.
C17_Case == Handled /\ last.request.tsconfigPath = Undefined

\* the configuration file of the ancestor directory k levels above the file
AncestorConfig(file, k) == Append(SubSeq(file, 1, Len(file) - k), TsConfigName)

C17_Resolution ==
  LET file == last.request.file
      having == {k \in 1..Len(file) : AncestorConfig(file, k) \in disk}
  IN /\ \A i \in 1..Len(last.probes) :
          last.probes[i] = AncestorConfig(file, i)
     /\ \A i \in 1..Len(last.probes) :
          last.probes[i] # Append(file, TsConfigName)
     /\ having = {} => last.tsConfig = DEFAULT_TSCONFIG
     /\ \A k \in having :
          (\A j \in having : k <= j) =>
            last.tsConfig = AncestorConfig(file, k)

\* every ancestor directory up to the first that has a configuration file
\* is probed, and no other
C17_Walk ==
  LET file == last.request.file
      having == {k \in 1..Len(file) : AncestorConfig(file, k) \in disk}
  IN /\ having = {} => Len(last.probes) = Len(file)
     /\ \A k \in having : (\A j \in having : k <= j) => Len(last.probes) = k

C17_NearestAncestor == C17_Case => C17_Resolution

\* C17, amended: the same, for a request whose file has no entry in the
\* per-file configuration cache; for a file that has one nothing is probed
\* and the cached configuration is used.
C17_NearestAncestorUncached ==
  C17_Case =>
    IF last.cached = Undefined THEN C17_Resolution /\ C17_Walk
    ELSE last.tsConfig = last.cached /\ last.probes = <<>>

C17_Witness ==
  /\ C17_Case
  /\ last.cached = Undefined
  /\ last.request.file = File1
  /\ NearConfig \in disk
  /\ FarConfig \in disk
  /\ last.tsConfig = NearConfig
  /\ last.probes = <<NearConfig>>

\* C18: however the bytes of a serialized request are split into chunks,
\* also inside a character of the content that takes two bytes, the request
\* parsed from the accumulated data is the request the client serialized,
\* and the content the file cache then holds for the file is the content
\* the client sent.
C18_ParsedIsSent ==
  Handled /\ last.completed # <<>> =>
    LET sent == last.completed[1]
    IN /\ last.request = sent
       /\ sent.file \in DOMAIN fileCache
       /\ fileCache[sent.file] = sent.content

\* C19, as claimed: a model that a rebuild creates is registered under the
\* configuration path whether or not the request then succeeds (the model
\* may have no program, or not contain the file); every request for a file
\* that the registered model does not contain creates and registers a new
\* model, also after a request that failed; a request for a file that the
\* registered model contains succeeds without a rebuild.
C19_Registered ==
  last.rebuilds = 1 =>
    /\ last.lookup \in {"found", "none"}
    /\ last.tsConfig \in DOMAIN servicesPerTsconfig
    /\ servicesPerTsconfig[last.tsConfig] =
         [files |-> last.files, program |-> last.program]

C19_Inside ==
  last.contained =>
    /\ last.lookup = "found"
    /\ last.rebuilds = 0
    /\ ~last.registryChanged

\* the request that follows a failed request for the same file finds no
\* model that contains the file
C19_Again ==
  /\ Looked
  /\ last.lookup = "none"
  /\ Looked'
  /\ last'.request.file = last.request.file
  /\ last'.tsConfig = last.tsConfig
  => last'.registered /\ ~last'.contained

C19_Claimed ==
  Looked =>
    /\ C19_Registered
    /\ C19_Inside
    /\ last.registered /\ ~last.contained => last.rebuilds = 1

C19_FailuresNotCached == [][C19_Claimed' /\ C19_Again]_vars

\* C19, amended: the same, but a request for a file that the registered
\* model does not contain resolves the descriptor anew, and creates and
\* registers a new model unless that resolution fails; when it fails no
\* model is created and the registry is left as it is.
C19_Amended ==
  Looked =>
    /\ C19_Registered
    /\ C19_Inside
    /\ last.registered /\ ~last.contained =>
         /\ last.parses = 1
         /\ last.threw => last.rebuilds = 0 /\ ~last.registryChanged
         /\ ~last.threw => last.rebuilds = 1

C19_FailuresNotCachedUnlessUnparsed == [][C19_Amended' /\ C19_Again]_vars

\* a model without the requested file has replaced another model, and the
\* request has failed
C19_Witness ==
  /\ Looked
  /\ last.registered
  /\ ~last.contained
  /\ last.rebuilds = 1
  /\ last.lookup = "none"
  /\ last.registryChanged
  /\ servicesPerTsconfig[last.tsConfig].program
  /\ last.request.file \notin servicesPerTsconfig[last.tsConfig].files

====
